---- MODULE Spec2Model ----
(***************************************************************************)
(* A model of scopesim's ordered effect container                          *)
(* (scopesim/optics/optical_element.py) and of its aperture geometry       *)
(* (scopesim/effects/apertures.py).                                        *)
(*                                                                         *)
(* The module holds one state machine per component.  Every one of them    *)
(* uses its own variables and leaves the other components' variables at    *)
(* their idle values:                                                      *)
(*   SpecOE      OpticalElement: add_effect, +, get_z_order_effects,       *)
(*               ter_list, mask_list                                       *)
(*   SpecPoly    make_aperture_polygon, points_on_a_circle, rotate         *)
(*   SpecRast    mask_from_coords                                          *)
(*   SpecAM      ApertureMask: header, mask, fov_grid                      *)
(*   SpecAL      ApertureList: apertures, fov_grid, +                      *)
(*                                                                         *)
(* Lengths are fixed-point numbers in 1/1000 arcsec, cosines and sines in  *)
(* 1/1000; the conversion of arcsec to degrees scales the vertices and the *)
(* pixel scale alike and is left out.                                      *)
(***************************************************************************)
EXTENDS Integers, Sequences, FiniteSets, TLC

VARIABLES
    effects,        \* OpticalElement.effects: the backing list
    effects_pre,    \* history: OpticalElement.effects before the last call
    ret,            \* the last call on the OpticalElement and what it returned
    poly_in,        \* the arguments of the last make_aperture_polygon call
    poly_out,       \* what that call returned or raised
    rast_in,        \* the arguments of the last mask_from_coords call
    rast_out,       \* the mask it returned
    ap,             \* an ApertureMask: meta, table, _header, _mask
    ap_pre,         \* history: the ApertureMask before the last call
    am_ret,         \* the last call on the ApertureMask and what it returned
    al,             \* an ApertureList, the receiver: meta, table
    al_other,       \* the object the receiver is added to
    al_pre,         \* history: al and al_other before the last call, and
                    \* whether fov_grid("edges") was called before it
    al_ret          \* the last call on the ApertureList and what it returned

oe_vars == <<effects, effects_pre, ret>>
poly_vars == <<poly_in, poly_out>>
rast_vars == <<rast_in, rast_out>>
am_vars == <<ap, ap_pre, am_ret>>
al_vars == <<al, al_other, al_pre, al_ret>>

vars == <<effects, effects_pre, ret, poly_in, poly_out, rast_in, rast_out,
          ap, ap_pre, am_ret, al, al_other, al_pre, al_ret>>

\* what a step of one component leaves alone
not_oe_vars == <<poly_vars, rast_vars, am_vars, al_vars>>
not_poly_vars == <<oe_vars, rast_vars, am_vars, al_vars>>
not_rast_vars == <<oe_vars, poly_vars, am_vars, al_vars>>
not_am_vars == <<oe_vars, poly_vars, rast_vars, al_vars>>
not_al_vars == <<oe_vars, poly_vars, rast_vars, am_vars>>

\* a component that is not running keeps its variables at "idle"
IdleOE == effects = "idle" /\ effects_pre = "idle" /\ ret = "idle"
IdlePoly == poly_in = "idle" /\ poly_out = "idle"
IdleRast == rast_in = "idle" /\ rast_out = "idle"
IdleAM == ap = "idle" /\ ap_pre = "idle" /\ am_ret = "idle"
IdleAL == al = "idle" /\ al_other = "idle" /\ al_pre = "idle" /\ al_ret = "idle"

(***************************************************************************)
(* Bounds of the model                                                     *)
(***************************************************************************)
\* the longest backing list of an OpticalElement that is explored
MaxEffects == 4

(***************************************************************************)
(* Python objects handed to the OpticalElement.  An object is its class    *)
(* and its meta["z_order"]: has = the key is in meta, isSeq = the value is *)
(* a list or tuple, zs = the value's elements (a scalar is the one         *)
(* element of zs).                                                         *)
(***************************************************************************)
Obj(cls, has, isSeq, zs) == [cls |-> cls, has |-> has, isSeq |-> isSeq, zs |-> zs]

\* ApertureMask.__init__ sets meta["z_order"] = [80, 280, 380]
ApertureMaskZOrder == <<80, 280, 380>>
\* ApertureList.__init__ sets meta["z_order"] = [81, 281]
ApertureListZOrder == <<81, 281>>

\* the effects of the explored universe: every class the container tells
\* apart, scalar markers, sequence markers, an empty sequence marker and an
\* effect without the key
EffectObjects ==
    { Obj("TERCurve", TRUE, FALSE, <<80>>),
      Obj("ApertureMask", TRUE, TRUE, ApertureMaskZOrder),
      Obj("SurfaceList", TRUE, FALSE, <<281>>),
      Obj("Effect", FALSE, FALSE, <<>>),
      Obj("ApertureList", TRUE, TRUE, ApertureListZOrder),
      Obj("Effect", TRUE, TRUE, <<>>) }

\* objects that are no Effect
OtherObjects == { Obj("dict", FALSE, FALSE, <<>>) }

Objects == EffectObjects \cup OtherObjects

NoObj == Obj("NoneType", FALSE, FALSE, <<>>)

\* the classes an object is an instance of (its class and the bases of it)
Mro(cls) ==
    CASE cls = "ApertureMask" -> {"ApertureMask", "Effect"}
      [] cls = "ApertureList" -> {"ApertureList", "Effect"}
      [] cls = "TERCurve"     -> {"TERCurve", "Effect"}
      [] cls = "SurfaceList"  -> {"SurfaceList", "Effect"}
      [] cls = "Effect"       -> {"Effect"}
      [] OTHER                -> {cls}

\* isinstance(obj, classes), classes a set of class names
IsInstance(obj, classes) == Mro(obj.cls) \cap classes # {}

(***************************************************************************)
(* get_z_order_effects                                                     *)
(***************************************************************************)
\* the argument of a call: form "int" (vals = <<z>>), "tuple" (vals = its
\* elements), "none" (the value None) or "missing" (no argument in the call)
ZArg(form, vals) == [form |-> form, vals |-> vals]

NoZArg == ZArg("unused", <<>>)

ZArgs ==
    { ZArg("int", <<80>>), ZArg("int", <<180>>), ZArg("int", <<281>>),
      ZArg("tuple", <<81, 281>>), ZArg("tuple", <<0, 79>>),
      ZArg("tuple", <<380, 380, 7>>), ZArg("tuple", <<5>>),
      ZArg("none", <<>>),
      ZArg("missing", <<>>) }

\* Python's any() over a list of booleans
PyAny(bs) == \E i \in 1..Len(bs) : bs[i]

\* Python's all() over a list of booleans
PyAll(bs) == \A i \in 1..Len(bs) : bs[i]

\* the mutant of ZMatches: a sequence marker needs all elements in range
ZMatchesAll(eff, zmin, zmax) ==
    /\ eff.has
    /\ IF eff.isSeq
       THEN PyAll([i \in 1..Len(eff.zs) |-> zmin <= eff.zs[i] /\ eff.zs[i] <= zmax])
       ELSE zmin <= eff.zs[1] /\ eff.zs[1] <= zmax

\* the body of the loop: whether eff is added to the returned list
ZMatches(eff, zmin, zmax) ==
    /\ eff.has
    /\ IF eff.isSeq
       THEN PyAny([i \in 1..Len(eff.zs) |-> zmin <= eff.zs[i] /\ eff.zs[i] <= zmax])
       ELSE zmin <= eff.zs[1] /\ eff.zs[1] <= zmax

\* the loop over self.effects, from index i on, acc the list built so far
RECURSIVE ZOrderLoop(_, _, _, _, _)
ZOrderLoop(effs, i, zmin, zmax, acc) ==
    IF i > Len(effs) THEN acc
    ELSE ZOrderLoop(effs, i + 1, zmin, zmax,
                    IF ZMatches(effs[i], zmin, zmax)
                    THEN acc \o <<effs[i]>> ELSE acc)

\* the z of an int argument stands for the range [z, z + ZLevelSpan]
ZLevelSpan == 99
\* the range of an argument that is neither an int nor a tuple or list
ZDefaultMin == 0
ZDefaultMax == 600

\* <<zmin, zmax>> of an argument that was bound to z_level
ZRange(zarg) ==
    CASE zarg.form = "int"   -> <<zarg.vals[1], zarg.vals[1] + ZLevelSpan>>
      [] zarg.form = "tuple" -> SubSeq(zarg.vals, 1, 2)
      [] OTHER               -> <<ZDefaultMin, ZDefaultMax>>

\* what a call returns: the list, or the exception it raises
Returned(op, obj, zarg, val) ==
    [op |-> op, obj |-> obj, zarg |-> zarg, val |-> val, err |-> "none"]
Raised(op, obj, zarg, err) ==
    [op |-> op, obj |-> obj, zarg |-> zarg, val |-> <<>>, err |-> err]

\* a call of get_z_order_effects: z_level has no default value, so a call
\* without an argument raises TypeError before the body runs; a tuple or
\* list with fewer than two elements cannot be unpacked into zmin, zmax
GetZOrderEffectsCall(effs, zarg) ==
    IF zarg.form = "missing"
    THEN Raised("get_z_order_effects", NoObj, zarg, "TypeError")
    ELSE IF zarg.form = "tuple" /\ Len(zarg.vals) < 2
    THEN Raised("get_z_order_effects", NoObj, zarg, "ValueError")
    ELSE Returned("get_z_order_effects", NoObj, zarg,
                  ZOrderLoop(effs, 1, ZRange(zarg)[1], ZRange(zarg)[2], <<>>))

GetZOrderEffects(zarg) ==
    /\ ret' = GetZOrderEffectsCall(effects, zarg)
    /\ effects_pre' = effects
    /\ UNCHANGED <<effects, not_oe_vars>>

(***************************************************************************)
(* add_effect and +                                                        *)
(***************************************************************************)
\* the mutant of AddEffectList: anything is appended
AddEffectListAny(effs, effect) == effs \o <<effect>>

\* the mutant of AddEffectList: an Effect is put in front of the list
AddEffectListFirst(effs, effect) ==
    IF IsInstance(effect, {"Effect"}) THEN <<effect>> \o effs ELSE effs

\* self.effects after add_effect(effect)
AddEffectList(effs, effect) ==
    IF IsInstance(effect, {"Effect"}) THEN effs \o <<effect>> ELSE effs

AddEffect(effect) ==
    /\ Len(effects) < MaxEffects
    /\ effects' = AddEffectList(effects, effect)
    /\ effects_pre' = effects
    /\ ret' = Returned("add_effect", effect, NoZArg, <<>>)
    /\ UNCHANGED not_oe_vars

\* __add__: self + other calls add_effect(other) and returns None
Add(other) ==
    /\ Len(effects) < MaxEffects
    /\ effects' = AddEffectList(effects, other)
    /\ effects_pre' = effects
    /\ ret' = Returned("__add__", other, NoZArg, <<>>)
    /\ UNCHANGED not_oe_vars

(***************************************************************************)
(* ter_list and mask_list                                                  *)
(***************************************************************************)
\* [effect for effect in effs if isinstance(effect, classes)]
RECURSIVE FilterInstances(_, _)
FilterInstances(effs, classes) ==
    IF effs = <<>> THEN <<>>
    ELSE (IF IsInstance(Head(effs), classes) THEN <<Head(effs)>> ELSE <<>>)
         \o FilterInstances(Tail(effs), classes)

TerListOf(effs) == FilterInstances(effs, {"SurfaceList", "TERCurve"})

MaskListOf(effs) == FilterInstances(effs, {"ApertureList"})

TerList ==
    /\ ret' = Returned("ter_list", NoObj, NoZArg, TerListOf(effects))
    /\ effects_pre' = effects
    /\ UNCHANGED <<effects, not_oe_vars>>

MaskList ==
    /\ ret' = Returned("mask_list", NoObj, NoZArg, MaskListOf(effects))
    /\ effects_pre' = effects
    /\ UNCHANGED <<effects, not_oe_vars>>

(***************************************************************************)
(* get_all and [ ]                                                         *)
(***************************************************************************)
\* effects_utils.get_all_effects(effects, effect_class): a new list of the
\* effects of the class, in the order of effects, which it leaves alone
GetAllEffects(effs, effect_class) == FilterInstances(effs, {effect_class})

\* the classes asked for
EffectClasses == {"Effect", "TERCurve", "ApertureMask"}

\* get_all(effect_class)
GetAll(effect_class) ==
    /\ ret' = Returned("get_all", [NoObj EXCEPT !.cls = effect_class], NoZArg,
                       GetAllEffects(effects, effect_class))
    /\ effects_pre' = effects
    /\ UNCHANGED <<effects, not_oe_vars>>

\* __getitem__: self[item] is self.get_all(item)
GetItem(item) ==
    /\ ret' = Returned("__getitem__", [NoObj EXCEPT !.cls = item], NoZArg,
                       GetAllEffects(effects, item))
    /\ effects_pre' = effects
    /\ UNCHANGED <<effects, not_oe_vars>>

(***************************************************************************)
(* The OpticalElement                                                      *)
(***************************************************************************)
\* OpticalElement(): no yaml_dict, so self.effects = []
InitOE ==
    /\ IdlePoly /\ IdleRast /\ IdleAM /\ IdleAL
    /\ effects = <<>>
    /\ effects_pre = <<>>
    /\ ret = Returned("__init__", NoObj, NoZArg, <<>>)

NextOE ==
    \/ \E effect \in Objects : AddEffect(effect)
    \/ \E other \in Objects : Add(other)
    \/ \E zarg \in ZArgs : GetZOrderEffects(zarg)
    \/ TerList
    \/ MaskList
    \/ \E effect_class \in EffectClasses : GetAll(effect_class)
    \/ \E item \in EffectClasses : GetItem(item)

SpecOE == InitOE /\ [][NextOE]_vars

(***************************************************************************)
(* Properties of the OpticalElement                                        *)
(***************************************************************************)
\* the markers of an effect as a set; none when the key is missing
Markers(eff) == IF eff.has THEN {eff.zs[i] : i \in 1..Len(eff.zs)} ELSE {}

\* the effects of effs with a marker in [zmin, zmax], in the order of effs
InRange(effs, zmin, zmax) ==
    SelectSeq(effs, LAMBDA eff : \E z \in Markers(eff) : zmin <= z /\ z <= zmax)

\* the container of the example: markers 80, a sequence with 80 in it, 281
\* and an effect without a marker
ExampleEffects ==
    << Obj("TERCurve", TRUE, FALSE, <<80>>),
       Obj("ApertureMask", TRUE, TRUE, ApertureMaskZOrder),
       Obj("SurfaceList", TRUE, FALSE, <<281>>),
       Obj("Effect", FALSE, FALSE, <<>>) >>

\* C1: a call of get_z_order_effects that returns, returns the effects with
\* a marker in its range (both ends included; a sequence marker with any
\* element in range), in insertion order, every entry of the container at
\* most once; effects without a marker are left out.  On the example
\* container get_z_order_effects(80) returns the first two effects.
C1_ZOrderFilter ==
    (ret.op = "get_z_order_effects" /\ ret.err = "none") =>
        /\ ret.val = InRange(effects, ZRange(ret.zarg)[1], ZRange(ret.zarg)[2])
        /\ \A i \in 1..Len(ret.val) : ret.val[i].has
        /\ (effects = ExampleEffects /\ ret.zarg = ZArg("int", <<80>>))
               => ret.val = SubSeq(ExampleEffects, 1, 2)

C1_Witness ==
    /\ ret.op = "get_z_order_effects"
    /\ ret.zarg = ZArg("int", <<80>>)
    /\ effects = ExampleEffects
    /\ ret.val = SubSeq(ExampleEffects, 1, 2)

\* C2: each of the three call forms succeeds and filters with its range: a
\* single integer z with [z, z+99], a 2-tuple with its two elements, a call
\* without an argument with [0, 600].
C2_CallForms ==
    ret.op = "get_z_order_effects" =>
        /\ ret.zarg.form = "int" =>
              /\ ret.err = "none"
              /\ ret.val = InRange(effects, ret.zarg.vals[1], ret.zarg.vals[1] + 99)
        /\ (ret.zarg.form = "tuple" /\ Len(ret.zarg.vals) = 2) =>
              /\ ret.err = "none"
              /\ ret.val = InRange(effects, ret.zarg.vals[1], ret.zarg.vals[2])
        /\ ret.zarg.form = "missing" =>
              /\ ret.err = "none"
              /\ ret.val = InRange(effects, 0, 600)

\* C3: add_effect(e) and container + e append e as the last element iff e
\* is an Effect; for anything else the call raises nothing and leaves the
\* backing list as it was.
C3_AddEffect ==
    ret.op \in {"add_effect", "__add__"} =>
        /\ ret.err = "none"
        /\ ret.obj \in EffectObjects => effects = Append(effects_pre, ret.obj)
        /\ ret.obj \notin EffectObjects => effects = effects_pre

C3_Witness ==
    /\ ret.op \in {"add_effect", "__add__"}
    /\ ret.obj \in OtherObjects
    /\ Len(effects_pre) >= 2
    /\ effects = effects_pre

\* C7: mask_list returns, in insertion order, the contained ApertureMasks
\* and ApertureLists and nothing else; ter_list returns, in insertion order,
\* the contained SurfaceLists and TERCurves and nothing else.
C7_TypedAccessors ==
    /\ ret.op = "mask_list" =>
          ret.val = SelectSeq(effects,
                        LAMBDA eff : eff.cls \in {"ApertureMask", "ApertureList"})
    /\ ret.op = "ter_list" =>
          ret.val = SelectSeq(effects,
                        LAMBDA eff : eff.cls \in {"SurfaceList", "TERCurve"})

(***************************************************************************)
(* Fixed-point arithmetic                                                  *)
(***************************************************************************)
\* a * c / 1000, rounded to the nearest integer
MulMilli(a, c) ==
    LET p == a * c
    IN  IF p >= 0 THEN (p + 500) \div 1000 ELSE -((500 - p) \div 1000)

\* 1000 * cos of 0, 15, ..., 90 degrees
CosTable == <<1000, 966, 866, 707, 500, 259, 0>>

\* 1000 * cos(deg), deg a multiple of 15 degrees
CosMilli(deg) ==
    LET a == deg % 360
    IN  IF a <= 90 THEN CosTable[(a \div 15) + 1]
        ELSE IF a <= 180 THEN -CosTable[((180 - a) \div 15) + 1]
        ELSE IF a <= 270 THEN -CosTable[((a - 180) \div 15) + 1]
        ELSE CosTable[((360 - a) \div 15) + 1]

\* 1000 * sin(deg)
SinMilli(deg) == CosMilli(deg - 90)

RECURSIVE SeqSum(_)
SeqSum(s) == IF s = <<>> THEN 0 ELSE Head(s) + SeqSum(Tail(s))

\* np.min and np.max of a non-empty array
SeqMin(s) == CHOOSE v \in {s[i] : i \in 1..Len(s)} : \A i \in 1..Len(s) : v <= s[i]
SeqMax(s) == CHOOSE v \in {s[i] : i \in 1..Len(s)} : \A i \in 1..Len(s) : v >= s[i]

\* int(np.ceil(a / b)) for a >= 0 and b > 0
CeilDiv(a, b) == (a + b - 1) \div b

(***************************************************************************)
(* points_on_a_circle, rotate, make_aperture_polygon                       *)
(***************************************************************************)
\* a shape entry of an aperture list row: a string, or an integer
StrShape(s) == [isStr |-> TRUE, s |-> s, n |-> 0]
IntShape(n) == [isStr |-> FALSE, s |-> "", n |-> n]

\* the strings float() accepts, among those of the model, and their value
NumericStrings == {"0", "1", "4"}
ParseInt(s) == CASE s = "0" -> 0 [] s = "1" -> 1 [] s = "4" -> 4

\* len(np.arange(0, 360, 360 / n)) for n # 0: no element for a negative step
ArangeLen(n) == IF n < 0 THEN 0 ELSE n

\* points_on_a_circle; n divides 360 into multiples of 15 degrees.
\* 360 / n raises ZeroDivisionError for n = 0 (its caller tests for that)
PointsOnACircle(n, x0, y0, dx, dy, offset) ==
    LET d_angle == [k \in 1..ArangeLen(n) |-> (k - 1) * (360 \div n) + offset]
    IN  [x |-> [k \in 1..ArangeLen(n) |-> x0 + MulMilli(dx, CosMilli(d_angle[k]))],
         y |-> [k \in 1..ArangeLen(n) |-> y0 + MulMilli(dy, SinMilli(d_angle[k]))]]

\* rotate: the points x, y turned by angle degrees around (x0, y0)
Rotate(x, y, x0, y0, angle) ==
    [x |-> [k \in 1..Len(x) |-> x0 + MulMilli(x[k] - x0, CosMilli(angle))
                                   - MulMilli(y[k] - y0, SinMilli(angle))],
     y |-> [k \in 1..Len(x) |-> y0 + MulMilli(x[k] - x0, SinMilli(angle))
                                   + MulMilli(y[k] - y0, CosMilli(angle))]]

\* np.average of an array (nan for an empty one, which rotate never reads)
Average(s) == IF s = <<>> THEN 0 ELSE SeqSum(s) \div Len(s)

PolyResult(x, y) == [err |-> "none", x |-> x, y |-> y]
PolyError(err) == [err |-> err, x |-> <<>>, y |-> <<>>]

\* the corner count n_corners[shape] after the try block: the count of a
\* named shape, the number itself for a numeric shape, -1 for a KeyError
RoundShapes == {"rect", "hex", "oct", "round"}
NamedCorners(s, n_round) ==
    CASE s = "rect" -> 4 [] s = "hex" -> 6 [] s = "oct" -> 8 [] s = "round" -> n_round

\* make_aperture_polygon; left, right, top, bottom in arcsec, angle and
\* offset in degrees
MakeAperturePolygon(left, right, top, bottom, angle, shape, n_round, offset) ==
    LET numeric == ~shape.isStr \/ shape.s \in NumericStrings
        shapeInt == IF shape.isStr THEN ParseInt(shape.s) ELSE shape.n
        known == numeric \/ shape.s \in RoundShapes
        n == IF numeric THEN shapeInt ELSE NamedCorners(shape.s, n_round)
        isRect == ~numeric /\ shape.s = "rect"
        x0 == 500 * (right + left)
        y0 == 500 * (top + bottom)
        dx == IF isRect THEN MulMilli(500 * (right - left), 1414)
                        ELSE 500 * (right - left)
        dy == IF isRect THEN MulMilli(500 * (top - bottom), 1414)
                        ELSE 500 * (top - bottom)
        off == IF isRect THEN offset + 45 ELSE offset
        p == PointsOnACircle(n, x0, y0, dx, dy, off)
        r == Rotate(p.x, p.y, Average(p.x), Average(p.y), angle)
    IN  IF ~known THEN PolyError("KeyError")
        ELSE IF n = 0 THEN PolyError("ZeroDivisionError")
        ELSE IF angle # 0 THEN PolyResult(r.x, r.y)
        ELSE PolyResult(p.x, p.y)

\* the arguments of the explored calls
PolyArgs(left, right, top, bottom, angle, shape, n_round, offset) ==
    [left |-> left, right |-> right, top |-> top, bottom |-> bottom,
     angle |-> angle, shape |-> shape, n_round |-> n_round, offset |-> offset]

Shapes ==
    {StrShape(s) : s \in RoundShapes \cup NumericStrings \cup {"star"}}
    \cup {IntShape(n) : n \in {-1, 0, 1, 2, 3, 4}}

Boxes == { <<-2, 2, 1, -1>>, <<0, 2, 4, 0>> }

PolyInputs ==
    { PolyArgs(b[1], b[2], b[3], b[4], angle, shape, n_round, offset) :
        b \in Boxes, angle \in {0, 30, 90}, shape \in Shapes,
        n_round \in {0, 1, 2, 24}, offset \in {0, 15} }

\* the call make_aperture_polygon(**poly_in)
MakeAperturePolygonCall ==
    /\ poly_out.err = "not called"
    /\ poly_out' = MakeAperturePolygon(poly_in.left, poly_in.right, poly_in.top,
                                       poly_in.bottom, poly_in.angle,
                                       poly_in.shape, poly_in.n_round,
                                       poly_in.offset)
    /\ UNCHANGED <<poly_in, not_poly_vars>>

InitPoly ==
    /\ IdleOE /\ IdleRast /\ IdleAM /\ IdleAL
    /\ poly_in \in PolyInputs
    /\ poly_out = PolyError("not called")

NextPoly == MakeAperturePolygonCall

SpecPoly == InitPoly /\ [][NextPoly]_vars

\* the corner count the request of poly_in resolves to
ResolvedCorners ==
    IF poly_in.shape.isStr
    THEN CASE poly_in.shape.s = "round" -> poly_in.n_round
           [] poly_in.shape.s = "rect" -> 4
           [] poly_in.shape.s = "hex" -> 6
           [] poly_in.shape.s = "oct" -> 8
           [] poly_in.shape.s = "0" -> 0
           [] poly_in.shape.s = "1" -> 1
           [] poly_in.shape.s = "4" -> 4
           [] OTHER -> 99
    ELSE poly_in.shape.n

\* C8: a request that resolves to 0 or 1 corners fails with an error, and
\* every vertex set that is returned has at least 3 points.
C8_NoDegeneratePolygon ==
    poly_out.err # "not called" =>
        /\ ResolvedCorners \in {0, 1} => poly_out.err # "none"
        /\ poly_out.err = "none" => Len(poly_out.x) >= 3 /\ Len(poly_out.y) >= 3

(***************************************************************************)
(* mask_from_coords                                                        *)
(***************************************************************************)
\* np.linspace(lo, hi, num)[i], i from 0, times LinDen(num): the samples
\* are the fractions LinNum / LinDen
LinDen(num) == IF num > 1 THEN num - 1 ELSE 1
LinNum(lo, hi, num, i) == lo * LinDen(num) + i * (hi - lo)

\* Path(corners).contains_points([(tx, ty)], radius=0) for the point
\* (tx / dx, ty / dy): the path is closed from its last vertex to its
\* first, and the point is inside iff it has an odd number of crossings
Crosses(corners, k, tx, dx, ty, dy) ==
    LET v0 == corners[k]
        v1 == corners[(k % Len(corners)) + 1]
        yflag0 == v0[2] * dy >= ty
        yflag1 == v1[2] * dy >= ty
    IN  /\ yflag0 # yflag1
        /\ (((v1[2] * dy - ty) * dx * (v0[1] - v1[1])
               >= (v1[1] * dx - tx) * dy * (v0[2] - v1[2])) <=> yflag1)

ContainsPoint(corners, tx, dx, ty, dy) ==
    Cardinality({k \in 1..Len(corners) : Crosses(corners, k, tx, dx, ty, dy)}) % 2 = 1

\* coords[k], k from 0, of [(xi, yi) for xi in xrange for yi in yrange] as
\* the indices <<i, j>> of its xi in xrange and its yi in yrange
CoordIndex(k, naxis1, naxis2) == <<k \div naxis2, k % naxis2>>

\* mask_from_coords: the mask as a sequence of naxis2 rows of naxis1 booleans
MaskFromCoords(x, y, pixel_scale) ==
    LET naxis1 == CeilDiv(SeqMax(x) - SeqMin(x), pixel_scale)
        naxis2 == CeilDiv(SeqMax(y) - SeqMin(y), pixel_scale)
        corners == [k \in 1..Len(x) |-> <<x[k], y[k]>>]
        \* contains_points(coords)[k], k from 0
        flat(k) ==
            LET ij == CoordIndex(k, naxis1, naxis2)
            IN  ContainsPoint(corners,
                              LinNum(SeqMin(x), SeqMax(x), naxis1, ij[1]), LinDen(naxis1),
                              LinNum(SeqMin(y), SeqMax(y), naxis2, ij[2]), LinDen(naxis2))
    IN  \* reshape((naxis2, naxis1)): row r, column c is flat[r * naxis1 + c]
        [r \in 1..naxis2 |-> [c \in 1..naxis1 |-> flat((r - 1) * naxis1 + (c - 1))]]

\* the largest width and height of the explored polygons
MaxX == 4
MaxY == 3

\* whether the sample (tx / dx, ty / dy) lies on the outline of the polygon
OnOutline(corners, tx, dx, ty, dy) ==
    \E k \in 1..Len(corners) :
        LET v0 == corners[k]
            v1 == corners[(k % Len(corners)) + 1]
            lo(a, b) == IF a <= b THEN a ELSE b
            hi(a, b) == IF a <= b THEN b ELSE a
        IN  /\ (v1[1] - v0[1]) * (ty - v0[2] * dy) * dx
                  = (v1[2] - v0[2]) * (tx - v0[1] * dx) * dy
            /\ lo(v0[1], v1[1]) * dx <= tx /\ tx <= hi(v0[1], v1[1]) * dx
            /\ lo(v0[2], v1[2]) * dy <= ty /\ ty <= hi(v0[2], v1[2]) * dy

\* whether some sample of the grid of the polygon lies on its outline
SampleOnOutline(x, y, pixel_scale) ==
    LET naxis1 == CeilDiv(SeqMax(x) - SeqMin(x), pixel_scale)
        naxis2 == CeilDiv(SeqMax(y) - SeqMin(y), pixel_scale)
    IN  \E i \in 0..(naxis1 - 1), j \in 0..(naxis2 - 1) :
            OnOutline([k \in 1..Len(x) |-> <<x[k], y[k]>>],
                      LinNum(SeqMin(x), SeqMax(x), naxis1, i), LinDen(naxis1),
                      LinNum(SeqMin(y), SeqMax(y), naxis2, j), LinDen(naxis2))

\* the quadrilaterals with one vertex on each side of a w by h box whose
\* lower corner is at (ox, oy)
Quads ==
    { [x |-> <<q[5] + q[1], q[5] + q[3], q[5] + q[2], q[5]>>,
       y |-> <<q[6], q[6] + q[7], q[6] + q[4], q[6] + q[8]>>] :
        q \in { t \in (0..MaxX) \X (0..MaxX) \X (1..MaxX) \X (1..MaxY)
                       \X {0, 1} \X {0, 2} \X (0..MaxY) \X (0..MaxY) :
                  /\ t[1] <= t[3] /\ t[2] <= t[3]
                  /\ t[7] <= t[4] /\ t[8] <= t[4] } }

\* the explored calls: the samples on the outline of a polygon are for
\* contains_points to decide, so the polygons with such a sample are left out
RastInputs ==
    { [x |-> q.x, y |-> q.y, pixel_scale |-> ps] :
        <<q, ps>> \in { t \in Quads \X {1, 2} :
                          ~SampleOnOutline(t[1].x, t[1].y, t[2]) } }

NoMaskYet == <<<<FALSE, FALSE, FALSE, FALSE, FALSE, FALSE, FALSE>>>>

\* the call mask_from_coords(**rast_in)
MaskFromCoordsCall ==
    /\ rast_out = NoMaskYet
    /\ rast_out' = MaskFromCoords(rast_in.x, rast_in.y, rast_in.pixel_scale)
    /\ UNCHANGED <<rast_in, not_rast_vars>>

InitRast ==
    /\ IdleOE /\ IdlePoly /\ IdleAM /\ IdleAL
    /\ rast_in \in RastInputs
    /\ rast_out = NoMaskYet

NextRast == MaskFromCoordsCall

SpecRast == InitRast /\ [][NextRast]_vars

\* the size of the grid of rast_in and whether its sample (x_i, y_j), i and
\* j from 0, is inside the polygon
RastNaxis1 == CeilDiv(SeqMax(rast_in.x) - SeqMin(rast_in.x), rast_in.pixel_scale)
RastNaxis2 == CeilDiv(SeqMax(rast_in.y) - SeqMin(rast_in.y), rast_in.pixel_scale)
RastInside(i, j) ==
    ContainsPoint([k \in 1..Len(rast_in.x) |-> <<rast_in.x[k], rast_in.y[k]>>],
                  LinNum(SeqMin(rast_in.x), SeqMax(rast_in.x), RastNaxis1, i),
                  LinDen(RastNaxis1),
                  LinNum(SeqMin(rast_in.y), SeqMax(rast_in.y), RastNaxis2, j),
                  LinDen(RastNaxis2))

\* C9: the mask has naxis2 rows of naxis1 entries, and the entry of row j
\* and column i is true exactly when the sample (x_i, y_j) is inside the
\* polygon.
C9_MaskRowMajorInY ==
    rast_out # NoMaskYet =>
        /\ Len(rast_out) = RastNaxis2
        /\ \A j \in 1..RastNaxis2 :
              /\ Len(rast_out[j]) = RastNaxis1
              /\ \A i \in 1..RastNaxis1 : rast_out[j][i] = RastInside(i - 1, j - 1)

(***************************************************************************)
(* ApertureMask                                                            *)
(***************************************************************************)
\* a value of meta["pixel_scale"]: a number (1/1000 arcsec), or the string
\* "!INST.pixel_scale" that from_currsys resolves
Num(v) == [bang |-> FALSE, v |-> v]
Bang == [bang |-> TRUE, v |-> 0]

\* rc.__currsys__: the value "!INST.pixel_scale" resolves to
Currsys == [INST_pixel_scale |-> 1000]

\* keyword arguments: every key the model reads is set to a value or unset
Set(val) == [set |-> TRUE, val |-> val]
UnsetInt == [set |-> FALSE, val |-> 0]
UnsetBool == [set |-> FALSE, val |-> FALSE]
UnsetScale == [set |-> FALSE, val |-> Num(0)]
Kwargs(pixel_scale, no_mask, angle, id, conserve_image) ==
    [pixel_scale |-> pixel_scale, no_mask |-> no_mask, angle |-> angle,
     id |-> id, conserve_image |-> conserve_image]
NoKwargs == Kwargs(UnsetScale, UnsetBool, UnsetInt, UnsetInt, UnsetBool)

\* meta.update(kwargs)
Update(meta, kwargs) ==
    [k \in DOMAIN meta |-> IF kwargs[k].set THEN kwargs[k].val ELSE meta[k]]

\* from_currsys(meta): the symbolic values of meta replaced by the values
\* of the current configuration
FromCurrsys(meta) ==
    [meta EXCEPT !.pixel_scale =
        IF @.bang THEN Num(Currsys.INST_pixel_scale) ELSE @]

\* self.table: its column names and, when it has them, the columns x and y
Table(colnames, x, y) == [colnames |-> colnames, x |-> x, y |-> y]

\* self._header and self._mask: None, a fits.Header, a boolean grid
NoneHeader ==
    [isHeader |-> FALSE, NAXIS1 |-> 0, NAXIS2 |-> 0, CRVAL1 |-> 0, CRVAL2 |-> 0,
     CDELT |-> 0, APERTURE |-> 0, ROT |-> 0, IMG_CONS |-> FALSE]
NoneMask == [isNone |-> TRUE, grid |-> <<>>]
Grid(g) == [isNone |-> FALSE, grid |-> g]

\* ApertureMask(**kwargs) with the table of its array_dict
NewApertureMask(table, kwargs) ==
    [meta |-> Update([pixel_scale |-> Bang, no_mask |-> TRUE, angle |-> 0,
                      id |-> 0, conserve_image |-> TRUE], kwargs),
     table |-> table,
     header |-> NoneHeader,
     mask |-> NoneMask]

\* imp_utils.header_from_list_of_xy: the bounding box of the vertices cut
\* into pixels of pixel_scale, the reference pixel at its lower corner
HeaderFromListOfXY(x, y, pixel_scale) ==
    [isHeader |-> TRUE,
     NAXIS1 |-> CeilDiv(SeqMax(x) - SeqMin(x), pixel_scale),
     NAXIS2 |-> CeilDiv(SeqMax(y) - SeqMin(y), pixel_scale),
     CRVAL1 |-> SeqMin(x), CRVAL2 |-> SeqMin(y), CDELT |-> pixel_scale,
     APERTURE |-> 0, ROT |-> 0, IMG_CONS |-> FALSE]

\* what a property or method gives: the aperture after it, its value (a
\* header and a mask, the unused one None) and whether it was computed
Gives(a, hdr, msk, computed) ==
    [ap |-> a, hdr |-> hdr, msk |-> msk, computed |-> computed]

\* get_header: resolves meta in place and builds the header
GetHeader(a) ==
    LET meta == FromCurrsys(a.meta)
        header == [HeaderFromListOfXY(a.table.x, a.table.y, meta.pixel_scale.v)
                     EXCEPT !.APERTURE = meta.id, !.ROT = meta.angle,
                            !.IMG_CONS = meta.conserve_image]
    IN  Gives([a EXCEPT !.meta = meta], header, NoneMask, TRUE)

\* the mutant of HeaderIsMissing: the header is computed whenever the
\* table has its columns
HeaderIsMissingAlways(a) == "x" \in a.table.colnames /\ "y" \in a.table.colnames

\* the test of the header property, which the mask property repeats
HeaderIsMissing(a) ==
    /\ ~a.header.isHeader
    /\ "x" \in a.table.colnames /\ "y" \in a.table.colnames

\* the header property
Header(a) ==
    IF HeaderIsMissing(a)
    THEN LET g == GetHeader(a)
         IN  Gives([g.ap EXCEPT !.header = g.hdr], g.hdr, NoneMask, TRUE)
    ELSE Gives(a, a.header, NoneMask, FALSE)

\* get_mask: resolves meta in place; the mask, or None under no_mask
GetMask(a) ==
    LET meta == FromCurrsys(a.meta)
    IN  Gives([a EXCEPT !.meta = meta], NoneHeader,
              IF meta.no_mask = FALSE
              THEN Grid(MaskFromCoords(a.table.x, a.table.y, meta.pixel_scale.v))
              ELSE NoneMask,
              TRUE)

\* the mask property: it tests self._header, not self._mask
Mask(a) ==
    IF HeaderIsMissing(a)
    THEN LET g == GetMask(a)
         IN  Gives([g.ap EXCEPT !.mask = g.msk], NoneHeader, g.msk, TRUE)
    ELSE Gives(a, NoneHeader, a.mask, FALSE)

\* fov_grid(which, **kwargs); any other which returns None
FovGrid(a, which, kwargs) ==
    CASE which = "edges" -> Header([a EXCEPT !.meta = Update(a.meta, kwargs)])
      [] which = "masks" -> Mask([a EXCEPT !.meta = Update(a.meta, kwargs)])
      [] OTHER -> Gives(a, NoneHeader, NoneMask, FALSE)

\* the explored vertex tables: a triangle, a square, and a table without
\* the columns x and y
Tables ==
    { Table({"x", "y"}, <<0, 4000, 1000>>, <<0, 1000, 3000>>),
      Table({"x", "y"}, <<0, 2000, 2000, 0>>, <<0, 0, 2000, 2000>>),
      Table({"wavelength"}, <<>>, <<>>) }

\* the explored keyword arguments of ApertureMask() and of fov_grid
KwargsSet ==
    { NoKwargs,
      Kwargs(Set(Num(2000)), UnsetBool, UnsetInt, UnsetInt, UnsetBool),
      Kwargs(Set(Bang), UnsetBool, UnsetInt, UnsetInt, UnsetBool),
      Kwargs(UnsetScale, UnsetBool, Set(30), Set(1), Set(FALSE)) }

InitKwargsSet ==
    { NoKwargs,
      Kwargs(UnsetScale, Set(FALSE), UnsetInt, UnsetInt, UnsetBool),
      Kwargs(Set(Num(2000)), Set(FALSE), UnsetInt, UnsetInt, UnsetBool) }

\* the last call: its name, its which and kwargs, and what it gave
AmRet(op, which, kwargs, g) ==
    [op |-> op, which |-> which, kwargs |-> kwargs,
     hdr |-> g.hdr, msk |-> g.msk, computed |-> g.computed]

\* reading ap.header
ReadHeader ==
    /\ ap' = Header(ap).ap
    /\ am_ret' = AmRet("header", "", NoKwargs, Header(ap))
    /\ ap_pre' = ap
    /\ UNCHANGED not_am_vars

\* reading ap.mask
ReadMask ==
    /\ ap' = Mask(ap).ap
    /\ am_ret' = AmRet("mask", "", NoKwargs, Mask(ap))
    /\ ap_pre' = ap
    /\ UNCHANGED not_am_vars

\* ap.fov_grid(which, **kwargs)
CallFovGrid(which, kwargs) ==
    /\ ap' = FovGrid(ap, which, kwargs).ap
    /\ am_ret' = AmRet("fov_grid", which, kwargs, FovGrid(ap, which, kwargs))
    /\ ap_pre' = ap
    /\ UNCHANGED not_am_vars

\* the owner of the aperture replaces or edits its vertex table
SetTable(table) ==
    /\ table # ap.table
    /\ ap' = [ap EXCEPT !.table = table]
    /\ am_ret' = AmRet("set table", "", NoKwargs, Gives(ap, NoneHeader, NoneMask, FALSE))
    /\ ap_pre' = ap
    /\ UNCHANGED not_am_vars

\* the owner of the aperture updates its meta
UpdateMeta(kwargs) ==
    /\ kwargs # NoKwargs
    /\ ap' = [ap EXCEPT !.meta = Update(ap.meta, kwargs)]
    /\ am_ret' = AmRet("meta.update", "", kwargs, Gives(ap, NoneHeader, NoneMask, FALSE))
    /\ ap_pre' = ap
    /\ UNCHANGED not_am_vars

InitAM ==
    /\ IdleOE /\ IdlePoly /\ IdleRast /\ IdleAL
    /\ \E table \in Tables, kwargs \in InitKwargsSet :
          /\ ap = NewApertureMask(table, kwargs)
          /\ ap_pre = ap
    /\ am_ret = AmRet("__init__", "", NoKwargs, Gives(ap, NoneHeader, NoneMask, FALSE))

NextAM ==
    \/ ReadHeader
    \/ ReadMask
    \/ \E which \in {"edges", "masks", "centres"}, kwargs \in KwargsSet :
          CallFovGrid(which, kwargs)
    \/ \E table \in Tables : SetTable(table)
    \/ \E kwargs \in KwargsSet : UpdateMeta(kwargs)

SpecAM == InitAM /\ [][NextAM]_vars

\* the last call read the header, or the mask, of the aperture
HeaderWasRead ==
    am_ret.op = "header" \/ (am_ret.op = "fov_grid" /\ am_ret.which = "edges")
MaskWasRead ==
    am_ret.op = "mask" \/ (am_ret.op = "fov_grid" /\ am_ret.which = "masks")
HasXY(table) == {"x", "y"} \subseteq table.colnames

\* C5: a read of the header of an aperture whose table has x and y caches
\* it; from then on no call changes the cached header, and every read of
\* header or fov_grid("edges") returns it without computing it again,
\* whatever became of the table and of meta.
C5_StickyHeader ==
    /\ (HeaderWasRead /\ HasXY(ap_pre.table)) =>
          ap.header.isHeader /\ am_ret.hdr = ap.header
    /\ ap_pre.header.isHeader =>
          /\ ap.header = ap_pre.header
          /\ HeaderWasRead => (am_ret.hdr = ap_pre.header /\ ~am_ret.computed)

\* a header is read again after the table and meta changed: what is
\* returned is the cached header, which a computation would not give now
C5_Witness ==
    /\ HeaderWasRead
    /\ ap_pre.header.isHeader
    /\ HasXY(ap.table)
    /\ ~am_ret.computed
    /\ am_ret.hdr.NAXIS1 # GetHeader(ap).hdr.NAXIS1
    /\ am_ret.hdr.APERTURE # ap.meta.id
    /\ am_ret.hdr.CDELT # FromCurrsys(ap.meta).pixel_scale.v

\* C6: with masking enabled, a read of the mask computes it exactly when
\* no mask is cached and the table has x and y, and returns the cached
\* mask otherwise; so with x and y present every read of mask or
\* fov_grid("masks") returns a grid; and a grid is cached only when masking
\* is enabled.
C6_MaskComputedWhenMissing ==
    /\ (MaskWasRead /\ ap.meta.no_mask = FALSE) =>
          /\ am_ret.computed <=> (ap_pre.mask.isNone /\ HasXY(ap_pre.table))
          /\ ~am_ret.computed => am_ret.msk = ap_pre.mask
          /\ HasXY(ap.table) => ~am_ret.msk.isNone
    /\ ~ap.mask.isNone => ap.meta.no_mask = FALSE

(***************************************************************************)
(* ApertureList                                                            *)
(***************************************************************************)
\* the longest table of an ApertureList that is explored
MaxRows == 5

\* a row of the table of an ApertureList
Row(id, left, right, top, bottom, angle, conserve_image, shape) ==
    [id |-> id, left |-> left, right |-> right, top |-> top, bottom |-> bottom,
     angle |-> angle, conserve_image |-> conserve_image, shape |-> shape]

\* the explored rows; the first and the third share their id
Row1 == Row(1, -2, 2, 1, -1, 0, TRUE, StrShape("rect"))
Row2 == Row(2, 0, 2, 4, 0, 90, FALSE, IntShape(4))
Row3 == Row(1, 0, 2, 4, 0, 0, FALSE, StrShape("oct"))
Rows == {Row1, Row2, Row3}

\* the default of meta["n_round_corners"]
NRoundCorners == 32

\* ApertureList(**kwargs) with a table: meta and table
NewApertureList(table, pixel_scale, no_mask) ==
    [meta |-> [pixel_scale |-> pixel_scale, n_round_corners |-> NRoundCorners,
               no_mask |-> no_mask],
     table |-> table]

\* get_apertures(row_ids): one new ApertureMask per row, none of them with
\* a header or a mask; the error of a row's polygon ends the call
RECURSIVE GetApertures(_, _)
GetApertures(list, row_ids) ==
    IF row_ids = <<>> THEN [err |-> "none", aps |-> <<>>]
    ELSE LET row == list.table[Head(row_ids)]
             array_dict == MakeAperturePolygon(row.left, row.right, row.top,
                               row.bottom, row.angle, row.shape,
                               list.meta.n_round_corners, 0)
             params == Kwargs(Set(list.meta.pixel_scale), Set(list.meta.no_mask),
                              Set(row.angle), Set(row.id), Set(row.conserve_image))
             rest == GetApertures(list, Tail(row_ids))
         IN  IF array_dict.err # "none" THEN [err |-> array_dict.err, aps |-> <<>>]
             ELSE IF rest.err # "none" THEN rest
             ELSE [err |-> "none",
                   aps |-> <<NewApertureMask(
                                 Table({"x", "y"}, array_dict.x, array_dict.y),
                                 params)>> \o rest.aps]

\* the apertures property: get_apertures(range(len(self.table)))
Apertures(list) == GetApertures(list, [i \in 1..Len(list.table) |-> i])

\* params of fov_grid: a copy of the meta of the list updated with kwargs
Params(list, kwargs) ==
    [kwargs EXCEPT
        !.pixel_scale = IF @.set THEN @ ELSE Set(list.meta.pixel_scale),
        !.no_mask = IF @.set THEN @ ELSE Set(list.meta.no_mask)]

\* the mutant of MasksDict: the first aperture of an id keeps its entry
RECURSIVE MasksDictFirstWins(_, _)
MasksDictFirstWins(aps, d) ==
    IF aps = <<>> THEN d
    ELSE MasksDictFirstWins(Tail(aps), d @@ (Head(aps).meta.id :> Mask(Head(aps)).msk))

\* {ap.meta["id"]: ap.mask for ap in aps} added to d: a later aperture
\* with an id replaces the entry of an earlier one
RECURSIVE MasksDict(_, _)
MasksDict(aps, d) ==
    IF aps = <<>> THEN d
    ELSE MasksDict(Tail(aps), (Head(aps).meta.id :> Mask(Head(aps)).msk) @@ d)

\* what a call on the list gives: the headers of "edges", the dict of
\* "masks", the exception raised and whether self was returned
ListGives(hdrs, masks, err, isSelf) ==
    [hdrs |-> hdrs, masks |-> masks, err |-> err, isSelf |-> isSelf]

\* ApertureList.fov_grid(which, **kwargs)
ListFovGrid(list, which, kwargs) ==
    LET got == Apertures(list)
        params == Params(list, kwargs)
    IN  IF which \notin {"edges", "masks"} THEN ListGives(<<>>, <<>>, "none", FALSE)
        ELSE IF got.err # "none" THEN ListGives(<<>>, <<>>, got.err, FALSE)
        ELSE IF which = "edges"
        THEN ListGives([i \in 1..Len(got.aps) |-> FovGrid(got.aps[i], "edges", params).hdr],
                       <<>>, "none", FALSE)
        ELSE ListGives(<<>>, MasksDict(got.aps, <<>>), "none", FALSE)

\* the mutant of VStack: the rows of the second table come first
VStackReversed(t1, t2) == t2 \o t1

\* astropy.table.vstack([t1, t2])
VStack(t1, t2) == t1 \o t2

\* the other operand of +: an ApertureList, or an object of another class
ListObj(table) == [cls |-> "ApertureList", table |-> table]
OtherObj(cls) == [cls |-> cls, table |-> <<>>]

AlRet(op, which, kwargs, g) ==
    [op |-> op, which |-> which, kwargs |-> kwargs, hdrs |-> g.hdrs,
     masks |-> g.masks, err |-> g.err, isSelf |-> g.isSelf]

\* al.fov_grid(which, **kwargs)
CallListFovGrid(which, kwargs) ==
    /\ al_ret' = AlRet("fov_grid", which, kwargs, ListFovGrid(al, which, kwargs))
    /\ al_pre' = [self |-> al, other |-> al_other,
                  edges |-> al_pre.edges \/ al_ret.which = "edges"]
    /\ UNCHANGED <<al, al_other, not_al_vars>>

\* al + al_other
ListAdd ==
    /\ Len(al.table) + Len(al_other.table) <= MaxRows
    /\ IF al_other.cls = "ApertureList"
       THEN /\ al' = [al EXCEPT !.table = VStack(al.table, al_other.table)]
            /\ al_ret' = AlRet("__add__", "", NoKwargs,
                               ListGives(<<>>, <<>>, "none", TRUE))
       ELSE /\ al' = al
            /\ al_ret' = AlRet("__add__", "", NoKwargs,
                               ListGives(<<>>, <<>>, "ValueError", FALSE))
    /\ al_pre' = [self |-> al, other |-> al_other,
                  edges |-> al_pre.edges \/ al_ret.which = "edges"]
    /\ UNCHANGED <<al_other, not_al_vars>>

\* al + al: the receiver is its own other operand
ListAddSelf ==
    /\ 2 * Len(al.table) <= MaxRows
    /\ al' = [al EXCEPT !.table = VStack(al.table, al.table)]
    /\ al_ret' = AlRet("__add__ self", "", NoKwargs, ListGives(<<>>, <<>>, "none", TRUE))
    /\ al_pre' = [self |-> al, other |-> al_other,
                  edges |-> al_pre.edges \/ al_ret.which = "edges"]
    /\ UNCHANGED <<al_other, not_al_vars>>

\* the explored tables of the receiver and of the other operand
ListTables ==
    {<<r>> : r \in Rows}
    \cup {<<Row1, Row3>>, <<Row3, Row1>>, <<Row2, Row2>>, <<Row1, Row2, Row3>>}
OtherObjs ==
    {ListObj(<<Row2>>), ListObj(<<Row2, Row3>>), ListObj(<<Row3, Row1>>),
     OtherObj("ApertureMask")}

\* the explored keyword arguments of ApertureList.fov_grid
ListKwargsSet ==
    { NoKwargs,
      Kwargs(Set(Num(2000)), UnsetBool, UnsetInt, UnsetInt, UnsetBool),
      Kwargs(UnsetScale, UnsetBool, Set(30), Set(1), Set(FALSE)) }

InitAL ==
    /\ IdleOE /\ IdlePoly /\ IdleRast /\ IdleAM
    /\ \E table \in ListTables,
          m \in {<<Bang, FALSE>>, <<Num(2000), FALSE>>, <<Num(2000), TRUE>>} :
          al = NewApertureList(table, m[1], m[2])
    /\ al_other \in OtherObjs
    /\ al_pre = [self |-> al, other |-> al_other, edges |-> FALSE]
    /\ al_ret = AlRet("__init__", "", NoKwargs, ListGives(<<>>, <<>>, "none", FALSE))

NextAL ==
    \/ \E which \in {"edges", "masks"}, kwargs \in ListKwargsSet :
          CallListFovGrid(which, kwargs)
    \/ CallListFovGrid("centres", NoKwargs)
    \/ ListAdd
    \/ ListAddSelf

SpecAL == InitAL /\ [][NextAL]_vars

\* C4: A + B with B an ApertureList makes the rows of A its former rows
\* followed by the rows of B, each group in its order (3 rows and 2 rows
\* give 5), returns A itself and leaves the rows of B as they were; with
\* any other B it fails with the mismatch error (a ValueError) and leaves
\* the rows of A as they were.  (In A + A the one table is both operands:
\* it becomes its former rows twice.)
C4_Concatenation ==
    /\ (al_ret.op = "__add__" /\ al_pre.other.cls = "ApertureList") =>
          /\ al_ret.err = "none" /\ al_ret.isSelf
          /\ Len(al.table) = Len(al_pre.self.table) + Len(al_pre.other.table)
          /\ SubSeq(al.table, 1, Len(al_pre.self.table)) = al_pre.self.table
          /\ SubSeq(al.table, Len(al_pre.self.table) + 1, Len(al.table))
                = al_pre.other.table
          /\ al_other = al_pre.other
          /\ (Len(al_pre.self.table) = 3 /\ Len(al_pre.other.table) = 2)
                => Len(al.table) = 5
    /\ (al_ret.op = "__add__" /\ al_pre.other.cls # "ApertureList") =>
          /\ al_ret.err = "ValueError" /\ ~al_ret.isSelf
          /\ al.table = al_pre.self.table
    /\ al_ret.op = "__add__ self" =>
          /\ al_ret.err = "none" /\ al_ret.isSelf
          /\ al.table = al_pre.self.table \o al_pre.self.table

\* three rows and two rows, in another order, were concatenated
C4_Witness ==
    /\ al_ret.op = "__add__"
    /\ al_pre.self.table = <<Row1, Row2, Row3>>
    /\ al_pre.other.table = <<Row3, Row1>>
    /\ al.table = <<Row1, Row2, Row3, Row3, Row1>>

\* the mask a new aperture of the row gives under the meta of the list
RowMask(list, row) ==
    LET poly == MakeAperturePolygon(row.left, row.right, row.top, row.bottom,
                                    row.angle, row.shape, list.meta.n_round_corners, 0)
        scale == IF list.meta.pixel_scale.bang THEN Currsys.INST_pixel_scale
                 ELSE list.meta.pixel_scale.v
    IN  IF list.meta.no_mask THEN NoneMask
        ELSE Grid(MaskFromCoords(poly.x, poly.y, scale))

\* the last row of the table with the id
LastRowOf(table, id) ==
    table[CHOOSE i \in 1..Len(table) :
            /\ table[i].id = id
            /\ \A j \in (i + 1)..Len(table) : table[j].id # id]

\* C10: fov_grid("masks") returns a mapping whose keys are the ids of the
\* table; the entry of an id is the mask of the last row with that id, as
\* a new aperture computes it (a grid when masking is enabled), whatever
\* fov_grid calls came before.
C10_MasksMapping ==
    (al_ret.op = "fov_grid" /\ al_ret.which = "masks") =>
        /\ al_ret.err = "none"
        /\ DOMAIN al_ret.masks = {al.table[i].id : i \in 1..Len(al.table)}
        /\ \A id \in DOMAIN al_ret.masks :
              /\ al_ret.masks[id] = RowMask(al, LastRowOf(al.table, id))
              /\ ~al.meta.no_mask => ~al_ret.masks[id].isNone

\* masks are read after an earlier fov_grid("edges"), from a table in
\* which two rows with different masks share an id
C10_Witness ==
    /\ al_ret.op = "fov_grid" /\ al_ret.which = "masks"
    /\ al_pre.edges
    /\ ~al.meta.no_mask
    /\ \E i, j \in 1..Len(al.table) :
          /\ i < j
          /\ al.table[i].id = al.table[j].id
          /\ RowMask(al, al.table[i]) # RowMask(al, al.table[j])
          /\ al_ret.masks[al.table[i].id] = RowMask(al, al.table[j])
          /\ ~al_ret.masks[al.table[i].id].isNone


\* C11: fov_grid("edges") returns one header per row of the table, in the
\* order of the rows, and whatever the keyword arguments and the meta of
\* the list, the header of a row has the id of the row as APERTURE, its
\* angle as ROT and its conserve_image as IMG_CONS.
C11_EdgesCarryRowSemantics ==
    (al_ret.op = "fov_grid" /\ al_ret.which = "edges") =>
        /\ al_ret.err = "none"
        /\ Len(al_ret.hdrs) = Len(al.table)
        /\ \A i \in 1..Len(al.table) :
              /\ al_ret.hdrs[i].isHeader
              /\ al_ret.hdrs[i].APERTURE = al.table[i].id
              /\ al_ret.hdrs[i].ROT = al.table[i].angle
              /\ al_ret.hdrs[i].IMG_CONS = al.table[i].conserve_image


\* C12: every read of header or mask (the properties, or fov_grid with
\* "edges" or "masks") resolves the symbolic values of meta in place:
\* after the read meta holds no "!..." string, whatever updates came
\* before and whether or not a header or a mask was cached.  (Stated for
\* the apertures whose table has x and y, which have a header and a mask
\* to read.)
C12_ReadResolvesMeta ==
    ((HeaderWasRead \/ MaskWasRead) /\ HasXY(ap.table))
        => ~ap.meta.pixel_scale.bang


\* the queries of the OpticalElement
Queries ==
    {"get_all", "__getitem__", "get_z_order_effects", "ter_list", "mask_list"}

\* s is the beginning of t
IsPrefix(s, t) == Len(s) <= Len(t) /\ SubSeq(t, 1, Len(s)) = s

\* the priorities of the effects do not ascend along the list
OutOfPriorityOrder(effs) ==
    \E i, j \in 1..Len(effs) :
        /\ i < j
        /\ Markers(effs[i]) # {} /\ Markers(effs[j]) # {}
        /\ \A a \in Markers(effs[i]), b \in Markers(effs[j]) : a > b

\* C13: self.effects only grows at its end: over every call (add_effect,
\* +, get_all, [ ], get_z_order_effects, ter_list, mask_list) the list
\* before the call is the beginning of the list after it, by at most one
\* element, and a query, returning or raising, leaves the list as it was;
\* so the list at an earlier point is the beginning of the list at every
\* later point, and no query sorts it by priority.
C13_AppendOnly ==
    /\ IsPrefix(effects_pre, effects)
    /\ Len(effects) <= Len(effects_pre) + 1
    /\ ret.op \in Queries => effects = effects_pre

\* a priority query returned some but not all of a list whose priorities
\* do not ascend, and the list is as it was
C13_Witness ==
    /\ ret.op = "get_z_order_effects" /\ ret.err = "none"
    /\ Len(effects) >= 3
    /\ OutOfPriorityOrder(effects)
    /\ ret.val # <<>> /\ ret.val # effects
    /\ effects = effects_pre

====
